---- MODULE Spec2Model ----
(***************************************************************************)
(* Model of the law-link extraction service (src/main.py).                 *)
(*                                                                         *)
(* Strings are sequences of one-character strings.  The module is plain    *)
(* ASCII, so every Cyrillic letter of the source is written as a Latin     *)
(* stand-in, lower case for the lower-case letter and upper case for the   *)
(* upper-case one:                                                         *)
(*    p = pe   s = es   t = te   c = che  g = ghe  k = ka                  *)
(*    r = er   f = ef   d = de   i = i (the conjunction)   v = ve          *)
(* "#" stands for the numero sign, a character outside every class of the  *)
(* source's patterns except where it is named.                             *)
(***************************************************************************)
EXTENDS Integers, Sequences, FiniteSets, TLC

VARIABLES
  phase,               \* the lifespan: "starting", "up" or "stopped"
  codex_aliases,       \* the alias table read from law_aliases.json
  law_aliases_invers,  \* the global alias -> law id index
  request,             \* the citations the request text is made of
  response,            \* the handler's LinksResponse
  stdout,              \* the groups of each match, as the call printed them
  history,             \* earlier calls of the core: text and result
  fn, arg, ret         \* a function called on its own, its input, its result

vars == <<phase, codex_aliases, law_aliases_invers, request, response, stdout,
          history, fn, arg, ret>>

-----------------------------------------------------------------------------
(* Characters *)

Digits == {"1", "2", "3"}

LowerCyr == {"p", "s", "t", "c", "g", "k", "r", "f", "d", "i", "v"}

UpperCyr == {"P", "S", "T", "C", "G", "K", "R", "F", "D", "I", "V"}

Whitespace == {" "}

LowerOf ==
  [ch \in UpperCyr |->
     CASE ch = "P" -> "p" [] ch = "S" -> "s" [] ch = "T" -> "t"
       [] ch = "C" -> "c" [] ch = "G" -> "g" [] ch = "K" -> "k"
       [] ch = "R" -> "r" [] ch = "F" -> "f" [] ch = "D" -> "d"
       [] ch = "I" -> "i" [] ch = "V" -> "v"]

\* str.lower() on one character and on a string
lowerChar(ch) == IF ch \in UpperCyr THEN LowerOf[ch] ELSE ch

lower(str) == [n \in 1..Len(str) |-> lowerChar(str[n])]

\* Optional[...] values: None is the empty tuple, a value v is <<v>>
None == <<>>

Some(v) == <<v>>

-----------------------------------------------------------------------------
(* Sequence helpers *)

RECURSIVE Flatten(_)
Flatten(ss) == IF ss = <<>> THEN <<>> ELSE Head(ss) \o Flatten(Tail(ss))

\* the subsequence of str at the positions satisfying keep, in order
RECURSIVE FilterAt(_, _, _)
FilterAt(str, keep, n) ==
  IF n > Len(str) THEN <<>>
  ELSE (IF keep[n] THEN <<str[n]>> ELSE <<>>) \o FilterAt(str, keep, n + 1)

\* str.strip(): whitespace removed at both ends
RECURSIVE strip(_)
strip(str) ==
  IF str = <<>> THEN <<>>
  ELSE IF Head(str) \in Whitespace THEN strip(Tail(str))
  ELSE IF str[Len(str)] \in Whitespace THEN strip(SubSeq(str, 1, Len(str) - 1))
  ELSE str

\* re.split on a one-character class: the pieces between separator characters
RECURSIVE SplitOn(_, _, _)
SplitOn(str, seps, cur) ==
  IF str = <<>> THEN <<cur>>
  ELSE IF Head(str) \in seps THEN <<cur>> \o SplitOn(Tail(str), seps, <<>>)
  ELSE SplitOn(Tail(str), seps, Append(cur, Head(str)))

-----------------------------------------------------------------------------
(* extract_multiple_entities *)

\* re.sub(r'[^\d<a-ya>,\s\.\-]', '', raw.lower())
StripNoise(str) ==
  LET keepSet == Digits \cup LowerCyr \cup Whitespace \cup {",", ".", "-"}
  IN  FilterAt(str, [n \in 1..Len(str) |-> str[n] \in keepSet], 1)

\* re.sub(r'(?<!\d)\.(?!\d)', '', s): a period goes when neither neighbour is a digit
DropLonePeriods(str) ==
  LET digitAt(n) == n >= 1 /\ n <= Len(str) /\ str[n] \in Digits
  IN  FilterAt(str,
               [n \in 1..Len(str) |->
                  ~(str[n] = "." /\ ~digitAt(n - 1) /\ ~digitAt(n + 1))], 1)

extract_multiple_entities(raw) ==
  LET clean_subpoint == DropLonePeriods(StripNoise(lower(raw)))
      parts == SplitOn(clean_subpoint, {",", "i"}, <<>>)
      stripped == [n \in 1..Len(parts) |-> strip(parts[n])]
      entities == Flatten([n \in 1..Len(parts) |->
                    IF stripped[n] /= <<>> THEN <<stripped[n]>> ELSE <<>>])
  IN  IF entities /= <<>> THEN entities ELSE <<raw>>

-----------------------------------------------------------------------------
(* fuzz.partial_ratio, as find_law_id_fuzzy calls it (fuzzywuzzy over        *)
(* difflib.SequenceMatcher, no junk heuristic below 200 characters)          *)

SetMax(S) == CHOOSE x \in S : \A y \in S : y <= x

SetMin(S) == CHOOSE x \in S : \A y \in S : x <= y

\* length of the common run of a from i and b from j, inside a[..ahi], b[..bhi]
RECURSIVE CommonLen(_, _, _, _, _, _)
CommonLen(a, b, i, j, ahi, bhi) ==
  IF i > ahi \/ j > bhi THEN 0
  ELSE IF a[i] /= b[j] THEN 0
  ELSE 1 + CommonLen(a, b, i + 1, j + 1, ahi, bhi)

\* SequenceMatcher.find_longest_match: the longest common block of
\* a[alo..ahi] and b[blo..bhi]; among the longest, the one starting earliest
\* in a, then earliest in b.  <<i, j, size>>, size 0 when nothing matches.
find_longest_match(a, b, alo, ahi, blo, bhi) ==
  LET pick(size) ==
        LET best == SetMax({0} \cup {size[pr] : pr \in DOMAIN size})
        IN  IF best = 0 THEN <<alo, blo, 0>>
            ELSE LET besti == SetMin({q[1] : q \in {q \in DOMAIN size : size[q] = best}})
                     bestj == SetMin({q[2] : q \in {q \in DOMAIN size :
                                                     size[q] = best /\ q[1] = besti}})
                 IN  <<besti, bestj, best>>
  IN  pick([pr \in (alo..ahi) \X (blo..bhi) |->
              CommonLen(a, b, pr[1], pr[2], ahi, bhi)])

\* SequenceMatcher.get_matching_blocks: the longest block, then the same to
\* its left and to its right.  The blocks, as a set of <<i, j, size>>.
RECURSIVE get_matching_blocks(_, _, _, _, _, _)
get_matching_blocks(a, b, alo, ahi, blo, bhi) ==
  IF alo > ahi \/ blo > bhi THEN {}
  ELSE LET around(m) ==
             IF m[3] = 0 THEN {}
             ELSE {m}
                  \cup get_matching_blocks(a, b, alo, m[1] - 1, blo, m[2] - 1)
                  \cup get_matching_blocks(a, b, m[1] + m[3], ahi, m[2] + m[3], bhi)
       IN  around(find_longest_match(a, b, alo, ahi, blo, bhi))

RECURSIVE SumSizes(_)
SumSizes(blocks) ==
  IF blocks = {} THEN 0
  ELSE LET m == CHOOSE x \in blocks : TRUE
       IN  m[3] + SumSizes(blocks \ {m})

\* SequenceMatcher.ratio as the pair <<2 * matches, len(a) + len(b)>>
ratio(a, b) ==
  <<2 * SumSizes(get_matching_blocks(a, b, 1, Len(a), 1, Len(b))), Len(a) + Len(b)>>

\* int(round(100 * num / den)), Python 3 rounding half to even
intr(num, den) ==
  LET q == (100 * num) \div den
      twice == 2 * ((100 * num) % den)
  IN  IF twice < den THEN q
      ELSE IF twice > den THEN q + 1
      ELSE IF q % 2 = 0 THEN q ELSE q + 1

\* a score of s1 against s2, 0..100
partial_ratio(s1, s2) ==
  IF s1 = s2 THEN 100
  ELSE IF Len(s1) = 0 \/ Len(s2) = 0 THEN 0
  ELSE
    LET shorter == IF Len(s1) <= Len(s2) THEN s1 ELSE s2
        longer  == IF Len(s1) <= Len(s2) THEN s2 ELSE s1
        \* every block and the closing (len, len, 0) block give a window start
        starts(blocks) ==
          {IF m[2] - m[1] > 0 THEN m[2] - m[1] ELSE 0 : m \in blocks}
          \cup {Len(longer) - Len(shorter)}
        window(st) == SubSeq(longer, st + 1,
                             IF st + Len(shorter) <= Len(longer)
                             THEN st + Len(shorter) ELSE Len(longer))
        score(rs) ==
          \* r > .995 returns 100 at once
          IF \E r \in rs : 1000 * r[1] > 995 * r[2] THEN 100
          ELSE LET top == CHOOSE r \in rs : \A q \in rs : q[1] * r[2] <= r[1] * q[2]
               IN  intr(top[1], top[2])
    IN  score({ratio(shorter, window(st)) :
               st \in starts(get_matching_blocks(shorter, longer, 1, Len(shorter),
                                                 1, Len(longer)))})

-----------------------------------------------------------------------------
(* The alias index and find_law_id_fuzzy *)

\* codex_aliases is the loaded table, a sequence of <<law id, aliases>> in
\* file order; a law id is a JSON object key, a string.
\* {i: k for k, v in codex_aliases.items() for i in v}: a dict keeps the
\* place of a key's first insertion and the value of its last.
RECURSIVE PutAll(_, _, _)
PutAll(d, aliases, id) ==
  IF aliases = <<>> THEN d
  ELSE LET key == Head(aliases)
           at  == {n \in 1..Len(d) : d[n][1] = key}
           d2  == IF at = {} THEN Append(d, <<key, id>>)
                  ELSE [d EXCEPT ![CHOOSE n \in at : TRUE] = <<key, id>>]
       IN  PutAll(d2, Tail(aliases), id)

RECURSIVE InvertAliases(_, _)
InvertAliases(table, d) ==
  IF table = <<>> THEN d
  ELSE InvertAliases(Tail(table), PutAll(d, Head(table)[2], Head(table)[1]))

Threshold == 90

\* the loop of find_law_id_fuzzy from key n on: <<max_score, res_key>>, res_key
\* the position of the key kept (0: none yet)
RECURSIVE ScanKeys(_, _, _, _)
ScanKeys(law_name, n, max_score, res_key) ==
  IF n > Len(law_aliases_invers) THEN <<max_score, res_key>>
  ELSE LET step(lev_score) ==
             IF lev_score > max_score
             THEN ScanKeys(law_name, n + 1, lev_score, n)
             ELSE ScanKeys(law_name, n + 1, max_score, res_key)
       IN  step(partial_ratio(law_name, lower(law_aliases_invers[n][1])))

\* after the loop: None below the threshold, else the id of the key kept
Resolved_AtMost(best) ==
  IF best[1] <= Threshold THEN None ELSE Some(law_aliases_invers[best[2]][2])

Resolved(best) ==
  IF best[1] < Threshold THEN None ELSE Some(law_aliases_invers[best[2]][2])

find_law_id_fuzzy(law_name) == Resolved(ScanKeys(law_name, 1, 0, 0))

-----------------------------------------------------------------------------
(* LawLink and process_match *)

DigitValue == [ch \in Digits |-> CASE ch = "1" -> 1 [] ch = "2" -> 2 [] ch = "3" -> 3]

RECURSIVE IntOf(_, _)
IntOf(str, acc) ==
  IF str = <<>> THEN acc ELSE IntOf(Tail(str), 10 * acc + DigitValue[Head(str)])

LawIdValid_Strict(law_id) == law_id = None

\* law_id: Optional[int] as pydantic validates it: None stays None, a string
\* of digits becomes its number, any other string is a validation error
LawIdValid(law_id) ==
  law_id = None \/ (law_id[1] /= <<>> /\ \A n \in 1..Len(law_id[1]) : law_id[1][n] \in Digits)

LawLink(law_id, article, point_article, subpoint_article) ==
  [law_id |-> IF law_id = None THEN None ELSE Some(IntOf(law_id[1], 0)),
   article |-> article,
   point_article |-> point_article,
   subpoint_article |-> subpoint_article]

\* ',' in field or the letter i in field
HasSeparator(field) == \E n \in 1..Len(field) : field[n] \in {",", "i"}

\* the candidates of one captured number field
Candidates(field) ==
  IF field = None THEN <<None>>
  ELSE IF HasSeparator(field[1])
       THEN LET es == extract_multiple_entities(field[1])
            IN  [n \in 1..Len(es) |-> Some(es[n])]
       ELSE <<field>>

\* point_articles: the point field, or the part field when there is no point
PointCandidates_WithPart(match) ==
  IF match.punkt_nomera = None THEN Candidates(match.chast_nomera)
  ELSE IF match.chast_nomera = None THEN Candidates(match.punkt_nomera)
  ELSE Candidates(match.punkt_nomera) \o Candidates(match.chast_nomera)

PointCandidates_NoPart(match) == Candidates(match.punkt_nomera)

PointCandidates(match) ==
  IF match.punkt_nomera = None THEN Candidates(match.chast_nomera)
  ELSE Candidates(match.punkt_nomera)

\* the three nested loops: article outer, point middle, subpoint inner
Product_SubpointOuter(law_id, articles, point_articles, subpoint_articles) ==
  Flatten([c \in 1..Len(subpoint_articles) |->
    Flatten([b \in 1..Len(point_articles) |->
      [a \in 1..Len(articles) |->
         LawLink(law_id, articles[a], point_articles[b], subpoint_articles[c])]])])

Product(law_id, articles, point_articles, subpoint_articles) ==
  Flatten([a \in 1..Len(articles) |->
    Flatten([b \in 1..Len(point_articles) |->
      [c \in 1..Len(subpoint_articles) |->
         LawLink(law_id, articles[a], point_articles[b], subpoint_articles[c])]])])

\* a match is the record of its named groups, each None or the text captured
\* (the instrument group always the latter).  The result: whether building a
\* LawLink raised, and the references returned when it did not.
process_match(match) ==
  LET expand(law_id, articles, point_articles, subpoint_articles) ==
        IF ~LawIdValid(law_id) THEN [raised |-> TRUE, references |-> <<>>]
        ELSE [raised |-> FALSE,
              references |-> Product(law_id, articles, point_articles,
                                     subpoint_articles)]
  IN  expand(find_law_id_fuzzy(match.ostalnoe[1]), Candidates(match.statya_nomera),
             PointCandidates(match), Candidates(match.podpunkt_nomera))

-----------------------------------------------------------------------------
(* Regular expressions: a backtracking matcher in the order of Python's re. *)
(* A pattern is a tree; a matcher state is the next position and the named  *)
(* groups captured so far; matching a node from a state gives every state   *)
(* it can end in, the one the engine tries first at the head.               *)

GroupNames == {"podpunkt_nomera", "punkt_nomera", "chast_nomera",
               "statya_nomera", "ostalnoe"}

Chr(S) == <<"chr", S>>

Cat(nodes) == <<"seq", nodes>>

Alt(nodes) == <<"alt", nodes>>

Rep(node, lo, hi) == <<"rep", node, lo, hi>>

Unbounded == 0 - 1

Opt(node) == Rep(node, 0, 1)

Star(node) == Rep(node, 0, Unbounded)

Plus(node) == Rep(node, 1, Unbounded)

Group(name, node) == <<"grp", name, node>>

LookAhead(node) == <<"look", node>>

EndOfText == <<"end">>

\* a literal under re.IGNORECASE: each letter in either case
Lit(str) ==
  Cat([n \in 1..Len(str) |->
         Chr({ch \in Digits \cup LowerCyr \cup UpperCyr \cup Whitespace
                     \cup {",", ".", "-", ";", "#"} :
              lowerChar(ch) = lowerChar(str[n])})])

RECURSIVE Match(_, _, _)
RECURSIVE MatchSeq(_, _, _, _)
RECURSIVE MatchRep(_, _, _, _, _)

Match(node, text, st) ==
  CASE node[1] = "chr" ->
         IF st.p <= Len(text) /\ text[st.p] \in node[2]
         THEN <<[st EXCEPT !.p = @ + 1]>> ELSE <<>>
    [] node[1] = "seq" -> MatchSeq(node[2], 1, text, <<st>>)
    [] node[1] = "alt" ->
         Flatten([k \in 1..Len(node[2]) |-> Match(node[2][k], text, st)])
    [] node[1] = "rep" -> MatchRep(node[2], node[3], node[4], text, st)
    [] node[1] = "grp" ->
         LET capture(ends) ==
               [k \in 1..Len(ends) |->
                  [ends[k] EXCEPT !.g[node[2]] = Some(<<st.p, ends[k].p - 1>>)]]
         IN  capture(Match(node[3], text, st))
    [] node[1] = "look" -> IF Match(node[2], text, st) /= <<>> THEN <<st>> ELSE <<>>
    [] node[1] = "end" -> IF st.p > Len(text) THEN <<st>> ELSE <<>>

MatchSeq(nodes, k, text, sts) ==
  IF k > Len(nodes) \/ sts = <<>> THEN sts
  ELSE MatchSeq(nodes, k + 1, text,
                Flatten([n \in 1..Len(sts) |-> Match(nodes[k], text, sts[n])]))

\* a greedy repeat: one more round first, stopping here last
MatchRep(node, lo, hi, text, st) ==
  LET again(once) ==
        Flatten([n \in 1..Len(once) |->
                   MatchRep(node, IF lo > 0 THEN lo - 1 ELSE 0,
                            IF hi = Unbounded THEN hi ELSE hi - 1, text, once[n])])
      more == again(IF hi = 0 THEN <<>> ELSE Match(node, text, st))
  IN  IF lo > 0 THEN more ELSE more \o <<st>>

NoGroups == [name \in GroupNames |-> None]

\* pattern.match at position p: the first way to match, or None
MatchAt(pattern, text, p) ==
  LET first(ends) ==
        IF ends = <<>> THEN None
        ELSE Some([start |-> p, end |-> ends[1].p,
                   groups |-> [name \in GroupNames |->
                      IF ends[1].g[name] = None THEN None
                      ELSE Some(SubSeq(text, ends[1].g[name][1][1],
                                       ends[1].g[name][1][2]))]])
  IN  first(Match(pattern, text, [p |-> p, g |-> NoGroups]))

\* re.finditer: the leftmost match from p on, then the next from its end
RECURSIVE finditer(_, _, _)
finditer(pattern, text, p) ==
  IF p > Len(text) THEN <<>>
  ELSE LET rest(m) ==
             IF m = None THEN finditer(pattern, text, p + 1)
             ELSE <<m[1]>> \o finditer(pattern, text, m[1].end)
       IN  rest(MatchAt(pattern, text, p))

-----------------------------------------------------------------------------
(* The citation pattern of find_references_in_text.  An alternative that    *)
(* holds a letter outside LowerCyr (every spelled-out keyword and name, and *)
(* the abbreviations other than the five below) matches no text over the    *)
(* model's characters and is left out; what is kept stays in source order.  *)
(* The four *_klyuch groups capture nothing process_match reads.            *)

Ws == Chr(Whitespace)

Digit == Chr(Digits)

Letter == Chr(LowerCyr \cup UpperCyr)

\* (?:v\s+)?
InPrefix == Opt(Cat(<<Lit(<<"v">>), Plus(Ws)>>))

\* tok(?:\s*,\s*tok)*(?:\s*i\s*tok)?
NumberList_CommasOnly(tok) ==
  Cat(<<tok, Star(Cat(<<Star(Ws), Lit(<<",">>), Star(Ws), tok>>))>>)

NumberList(tok) ==
  Cat(<<tok,
        Star(Cat(<<Star(Ws), Lit(<<",">>), Star(Ws), tok>>)),
        Opt(Cat(<<Star(Ws), Lit(<<"i">>), Star(Ws), tok>>))>>)

\* \d{1,4}(?:[\.\-]\d{1,3})*[a-ya]?
CompoundNumber ==
  Cat(<<Rep(Digit, 1, 4), Star(Cat(<<Chr({".", "-"}), Rep(Digit, 1, 3)>>)), Opt(Letter)>>)

\* \d{1,4}[a-ya]?|[a-ya]
SubpointToken == Alt(<<Cat(<<Rep(Digit, 1, 4), Opt(Letter)>>), Letter>>)

PointToken == Alt(<<CompoundNumber, Letter>>)

\* \d{1,3}(?:\.\d{1,3})?|[a-ya]
PartToken ==
  Alt(<<Cat(<<Rep(Digit, 1, 3), Opt(Cat(<<Lit(<<".">>), Rep(Digit, 1, 3)>>))>>), Letter>>)

ArticleToken == CompoundNumber

SubpointClause ==
  Cat(<<InPrefix,
        Opt(Cat(<<Lit(<<"p", "p", ".">>), Star(Ws),
                  Group("podpunkt_nomera", NumberList(SubpointToken)), Plus(Ws)>>))>>)

PointClause ==
  Cat(<<InPrefix,
        Opt(Cat(<<Lit(<<"p", ".">>), Star(Ws),
                  Group("punkt_nomera", NumberList(PointToken)), Plus(Ws)>>))>>)

PartClause ==
  Cat(<<InPrefix,
        Opt(Cat(<<Lit(<<"c", ".">>), Star(Ws),
                  Group("chast_nomera", NumberList(PartToken)),
                  Opt(Cat(<<Star(Ws), Lit(<<",">>), Star(Ws)>>)), Plus(Ws)>>))>>)

ArticleClause ==
  Cat(<<InPrefix,
        Opt(Cat(<<Lit(<<"s", "t", ".">>), Star(Ws),
                  Opt(Cat(<<Lit(<<"v">>), Plus(Ws)>>)),
                  Group("statya_nomera", NumberList(ArticleToken)), Plus(Ws)>>))>>)

\* (?:\s+RF)? and (?:\s+(?:Rossii|RF))?, of which only RF is spellable
RFSuffix == Opt(Cat(<<Plus(Ws), Lit(<<"r", "f">>)>>))

Instrument ==
  Alt(<<Cat(<<Lit(<<"g", "k">>), RFSuffix>>),
        Cat(<<Lit(<<"g", "p", "k">>), RFSuffix>>),
        Cat(<<Lit(<<"s", "k">>), RFSuffix>>),
        Cat(<<Lit(<<"t", "k">>), RFSuffix>>),
        \* RP(?:\s+(?:#?\s*\d+-\s*rp|...))?
        Cat(<<Lit(<<"r", "p">>),
              Opt(Cat(<<Plus(Ws), Opt(Lit(<<"#">>)), Star(Ws), Plus(Digit),
                        Lit(<<"-">>), Star(Ws), Lit(<<"r", "p">>)>>))>>)>>)

\* (?=\s|,|\.|;|$)
InstrumentEnd == LookAhead(Alt(<<Ws, Lit(<<",">>), Lit(<<".">>), Lit(<<";">>), EndOfText>>))

Pattern ==
  Cat(<<SubpointClause, PointClause, PartClause, ArticleClause,
        Group("ostalnoe", Cat(<<Instrument, InstrumentEnd>>))>>)

patterns == <<Pattern>>

-----------------------------------------------------------------------------
(* find_references_in_text and extract_legal_references_advanced *)

\* all_matches: one match iterator per pattern, each its own object
all_matches(text) ==
  [n \in 1..Len(patterns) |-> [id |-> n, matches |-> finditer(patterns[n], text, 1)]]

\* list(dict.fromkeys(objs)): the first of every run of equal keys; an
\* iterator is equal to itself alone
RECURSIVE DictFromKeys(_, _)
DictFromKeys(objs, seen) ==
  IF objs = <<>> THEN <<>>
  ELSE IF Head(objs).id \in seen THEN DictFromKeys(Tail(objs), seen)
  ELSE <<Head(objs)>> \o DictFromKeys(Tail(objs), seen \cup {Head(objs).id})

\* the two loops over the matches: each match is printed, then expanded; an
\* exception of process_match ends the call
RECURSIVE RunMatches(_, _, _)
RunMatches(matches, references, printed) ==
  IF matches = <<>>
  THEN [raised |-> FALSE, references |-> references, printed |-> printed]
  ELSE LET match == Head(matches).groups
           extend(got) ==
             IF got.raised
             THEN [raised |-> TRUE, references |-> <<>>,
                   printed |-> Append(printed, match)]
             ELSE RunMatches(Tail(matches), references \o got.references,
                             Append(printed, match))
       IN  extend(process_match(match))

RECURSIVE Dedup(_, _)
Dedup(refs, seen) ==
  IF refs = <<>> THEN <<>>
  ELSE IF Head(refs) \in seen THEN Dedup(Tail(refs), seen)
  ELSE <<Head(refs)>> \o Dedup(Tail(refs), seen \cup {Head(refs)})

\* the matches of every iterator kept, in order
MatchesOf(unique_matches) ==
  Flatten([n \in 1..Len(unique_matches) |-> unique_matches[n].matches])

DropRepeated(run) == [run EXCEPT !.references = Dedup(@, {})]

find_references_in_text_Dedup(original_text) ==
  DropRepeated(RunMatches(MatchesOf(DictFromKeys(all_matches(original_text), {})),
                          <<>>, <<>>))

find_references_in_text(original_text) ==
  RunMatches(MatchesOf(DictFromKeys(all_matches(original_text), {})), <<>>, <<>>)

extract_legal_references_advanced(text) == find_references_in_text(text)

-----------------------------------------------------------------------------
(* The service: lifespan, POST /detect, GET /health *)

\* nothing in a call of the core assigns the global index
IndexAfterExtract_Evict(text) ==
  IF law_aliases_invers = <<>> THEN <<>> ELSE Tail(law_aliases_invers)

IndexAfterExtract(text) == law_aliases_invers

\* lifespan, up to the yield
lifespan_startup ==
  /\ phase = "starting"
  /\ law_aliases_invers' = InvertAliases(codex_aliases, <<>>)
  /\ phase' = "up"
  /\ UNCHANGED <<codex_aliases, request, response, stdout, history, fn, arg, ret>>

\* lifespan, after the yield: del law_aliases_invers
lifespan_shutdown ==
  /\ phase = "up"
  /\ fn \in {"none", "get_law_links", "health_check"}
  /\ phase' = "stopped"
  /\ law_aliases_invers' = <<>>
  /\ UNCHANGED <<codex_aliases, request, response, stdout, history, fn, arg, ret>>

Marker(kind) ==
  CASE kind = "pp" -> <<"p", "p", ".">>
    [] kind = "p"  -> <<"p", ".">>
    [] kind = "c"  -> <<"c", ".">>
    [] kind = "st" -> <<"s", "t", ".">>

Comma == <<",", " ">>

And == <<" ", "i", " ">>

Separators == {Comma, And}

RECURSIVE RenderList(_, _)
RenderList(toks, seps) ==
  IF Len(toks) = 1 THEN toks[1]
  ELSE toks[1] \o seps[1] \o RenderList(Tail(toks), Tail(seps))

RenderClause(cl) == Marker(cl.kind) \o <<" ">> \o RenderList(cl.toks, cl.seps) \o <<" ">>

RenderCitation(cit) ==
  Flatten([n \in 1..Len(cit.clauses) |-> RenderClause(cit.clauses[n])]) \o cit.name

RECURSIVE RenderText(_)
RenderText(req) ==
  IF Len(req) = 1 THEN RenderCitation(req[1])
  ELSE RenderCitation(req[1]) \o <<";", " ">> \o RenderText(Tail(req))

\* get_law_links: the whole handler, the core's exception caught at its edge
get_law_links(req, keepHistory) ==
  /\ phase = "up"
  /\ fn \in {"none", "get_law_links", "health_check"}
  /\ \E references \in {extract_legal_references_advanced(RenderText(req))} :
       /\ request' = req
       /\ stdout' = references.printed
       /\ ret' = Some([raised |-> references.raised,
                       references |-> references.references])
       /\ response' = [links |-> IF references.raised THEN <<>>
                                 ELSE references.references]
  /\ law_aliases_invers' = IndexAfterExtract(RenderText(req))
  /\ history' = IF keepHistory /\ ret /= None
                THEN Append(history, [text |-> RenderText(request), result |-> ret[1]])
                ELSE history
  /\ fn' = "get_law_links"
  /\ UNCHANGED <<phase, codex_aliases, arg>>

health_check ==
  /\ phase = "up"
  /\ fn \in {"none", "get_law_links"}
  /\ fn' = "health_check"
  /\ UNCHANGED <<phase, codex_aliases, law_aliases_invers, request, response,
                 stdout, history, arg, ret>>

-----------------------------------------------------------------------------
(* Inputs *)

MaxList == 3

MaxCitations == 2

MaxCalls == 2

MaxEntries == 3

\* number-lists of 1..MaxList tokens, each joint a comma or the conjunction
NumberLists(tokens) ==
  UNION {{[toks |-> ts, seps |-> ss] : ts \in [1..k -> tokens],
                                        ss \in [1..(k - 1) -> Separators]} :
         k \in 1..MaxList}

\* tokens of each clause's grammar
TokensOf(kind) == IF kind = "c" THEN {<<"1">>, <<"d">>} ELSE {<<"1">>, <<"2", "d">>}

TextNames == {<<"g", "k">>, <<"G", "K", " ", "R", "F">>}

ClauseKinds == {"pp", "p", "c", "st"}

SingleCitations ==
  {[clauses |-> <<>>, name |-> nm] : nm \in TextNames}
  \cup UNION {{[clauses |-> <<[kind |-> kind, toks |-> nl.toks, seps |-> nl.seps]>>,
                name |-> nm] : nl \in NumberLists(TokensOf(kind)), nm \in TextNames} :
              kind \in ClauseKinds}

One(kind, tok) == [kind |-> kind, toks |-> <<tok>>, seps |-> <<>>]

\* citations of several clauses, the examples of the service's description
SampleCitations ==
  {[clauses |-> <<[kind |-> "p", toks |-> <<<<"1">>, <<"2">>, <<"3">>>>, seps |-> <<Comma, And>>],
                  One("st", <<"1">>)>>, name |-> <<"G", "K", " ", "R", "F">>],
   [clauses |-> <<One("pp", <<"d">>), One("p", <<"2">>), One("st", <<"1">>)>>, name |-> <<"T", "K", " ", "R", "F">>],
   [clauses |-> <<One("c", <<"2">>), One("st", <<"1">>)>>, name |-> <<"G", "K">>],
   [clauses |-> <<One("p", <<"1">>), One("c", <<"2">>), One("st", <<"3">>)>>, name |-> <<"G", "K">>]}

ShortCitations ==
  {[clauses |-> <<>>, name |-> nm] : nm \in TextNames}
  \cup {[clauses |-> <<One(kind, <<"1">>)>>, name |-> nm] :
        kind \in {"p", "st"}, nm \in TextNames}

Requests ==
  {<<cit>> : cit \in SingleCitations \cup SampleCitations}
  \cup UNION {[1..k -> ShortCitations] : k \in 2..MaxCitations}

RepeatRequests ==
  {<<[clauses |-> <<>>, name |-> <<"G", "K">>]>>,
   <<[clauses |-> <<One("st", <<"1">>)>>, name |-> <<"G", "K">>]>>,
   <<[clauses |-> <<One("st", <<"1">>)>>, name |-> <<"g", "k", " ", "r", "f">>]>>,
   <<[clauses |-> <<One("p", <<"1">>)>>, name |-> <<"G", "K", " ", "R", "F">>],
     [clauses |-> <<One("p", <<"1">>)>>, name |-> <<"G", "K", " ", "R", "F">>]>>}

\* law_aliases.json as the service may find it: ids made of digits, an id
\* that is no number, an empty table
ServiceTables ==
  {<< <<<<"1">>, <<<<"g", "k">>, <<"g", "k", " ", "r", "f">>>>>>, <<<<"2">>, <<<<"t", "k">>, <<"T", "K", " ", "R", "F">>>>>> >>,
   << <<<<"g", "k">>, <<<<"g", "k">>>>>>, <<<<"1">>, <<<<"t", "k">>>>>> >>,
   << >>}

\* tables of two laws with at most MaxEntries aliases between them
AliasNames == {<<"g", "k">>, <<"G", "K">>, <<"g", "k", " ", "r", "f">>, <<"g", "k", "r", "f", "d", "p", "s", "t", "c", "v">>}

AliasLists(n) == UNION {[1..k -> AliasNames] : k \in 0..n}

ResolveTables ==
  UNION {{<< <<<<"1">>, a1>>, <<<<"2">>, a2>> >> :
            a2 \in {a \in AliasLists(MaxEntries) : Len(a1) + Len(a) <= MaxEntries}} :
         a1 \in AliasLists(MaxEntries)}
  \cup {<< >>}

ResolveNames == AliasNames \cup {<<"g", "k", "r", "f", "d", "p", "s", "t", "c", "1">>, <<"g", "k", "r", "f", "d", "p", "s", "t", "1">>, <<"t", "k">>}

ExpandTables == {<< <<<<"1">>, <<<<"g", "k">>>>>>, <<<<"2">>, <<<<"t", "k">>>>>> >>, << >>}

MatchRecords ==
  [podpunkt_nomera : {None, Some(<<"d">>), Some(<<"1", ",", " ", "2">>)},
   punkt_nomera    : {None, Some(<<"1">>), Some(<<"1", ",", " ", "2", " ", "i", " ", "3">>), Some(<<"i">>)},
   chast_nomera    : {None, Some(<<"2">>), Some(<<"3", " ", "i", " ", "2">>), Some(<<"1", ".", "2">>)},
   statya_nomera   : {None, Some(<<"1">>), Some(<<"1", ",", " ", "2">>)},
   ostalnoe        : {Some(<<"g", "k">>), Some(<<"G", "K">>), Some(<<"t", "k">>)}]

SplitTokens == {<<"1">>, <<"1", ".", "2">>, <<"1", "-", "2", "d">>, <<"3", "i">>, <<"d">>, <<"i">>}

-----------------------------------------------------------------------------
(* Specifications *)

Idle ==
  /\ phase = "starting"
  /\ law_aliases_invers = <<>>
  /\ request = <<>>
  /\ response = [links |-> <<>>]
  /\ stdout = <<>>
  /\ history = <<>>
  /\ ret = None

\* the service over one request
Init ==
  /\ Idle
  /\ codex_aliases \in ServiceTables
  /\ fn = "none"
  /\ arg \in Requests

Next ==
  \/ lifespan_startup
  \/ ret = None /\ get_law_links(arg, FALSE)
  \/ health_check
  \/ lifespan_shutdown

Spec == Init /\ [][Next]_vars

\* the service over several requests, remembering the earlier calls
InitRepeat ==
  /\ Idle
  /\ codex_aliases \in ServiceTables
  /\ fn = "none"
  /\ arg = None

NextRepeat ==
  \/ lifespan_startup
  \/ \E req \in RepeatRequests : Len(history) < MaxCalls /\ get_law_links(req, TRUE)
  \/ health_check
  \/ lifespan_shutdown

SpecRepeat == InitRepeat /\ [][NextRepeat]_vars

\* a function of the core called on its own, once the index is built
Call(name, result) ==
  /\ fn = name
  /\ ret = None
  /\ ret' = Some(result)
  /\ UNCHANGED <<phase, codex_aliases, law_aliases_invers, request, response,
                 stdout, history, fn, arg>>

InitSplit ==
  /\ Idle
  /\ codex_aliases = <<>>
  /\ fn = "extract_multiple_entities"
  /\ arg \in NumberLists(SplitTokens)

NextSplit ==
  Call("extract_multiple_entities",
       extract_multiple_entities(RenderList(arg.toks, arg.seps)))

SpecSplit == InitSplit /\ [][NextSplit]_vars

InitResolve ==
  /\ Idle
  /\ codex_aliases \in ResolveTables
  /\ fn = "find_law_id_fuzzy"
  /\ arg \in ResolveNames

NextResolve ==
  \/ lifespan_startup
  \/ phase = "up" /\ Call("find_law_id_fuzzy", find_law_id_fuzzy(arg))

SpecResolve == InitResolve /\ [][NextResolve]_vars

InitExpand ==
  /\ Idle
  /\ codex_aliases \in ExpandTables
  /\ fn = "process_match"
  /\ arg \in MatchRecords

NextExpand ==
  \/ lifespan_startup
  \/ phase = "up" /\ Call("process_match", process_match(arg))

SpecExpand == InitExpand /\ [][NextExpand]_vars

-----------------------------------------------------------------------------
(* Properties *)

\* the function called on its own has returned
Returned(name) == fn = name /\ ret /= None

\* the best score of the name in arg over the index
MaxScore ==
  SetMax({0} \cup {partial_ratio(arg, lower(law_aliases_invers[n][1])) :
                   n \in 1..Len(law_aliases_invers)})

\* C1 as stated: find_law_id_fuzzy returns a law id only when the best score
\* is strictly greater than 90, and None whenever it is at most 90.
C1_StrictlyAbove90 ==
  Returned("find_law_id_fuzzy") =>
    /\ ret[1] /= None => MaxScore > 90
    /\ MaxScore <= 90 => ret[1] = None

\* C1, amended: find_law_id_fuzzy returns None exactly when the best score is
\* below 90; at 90 and above it returns the id of an alias with the best score.
C1_AtLeast90 ==
  Returned("find_law_id_fuzzy") =>
    /\ ret[1] = None <=> MaxScore < 90
    /\ ret[1] /= None =>
         \E n \in 1..Len(law_aliases_invers) :
           /\ partial_ratio(arg, lower(law_aliases_invers[n][1])) = MaxScore
           /\ ret[1] = Some(law_aliases_invers[n][2])

C1_Witness == Returned("find_law_id_fuzzy") /\ MaxScore = 90 /\ ret[1] /= None

\* C2: for every alias a of the index, find_law_id_fuzzy(a) returns the law id
\* the index maps a to.
C2_SelfResolution ==
  Returned("find_law_id_fuzzy") =>
    \A n \in 1..Len(law_aliases_invers) :
      arg = law_aliases_invers[n][1] => ret[1] = Some(law_aliases_invers[n][2])

\* the candidates the claims speak of, field by field
ArticleValues == Candidates(arg.statya_nomera)

SubpointValues == Candidates(arg.podpunkt_nomera)

PartValues ==
  IF arg.chast_nomera = None THEN <<None>>
  ELSE IF HasSeparator(arg.chast_nomera[1])
       THEN LET es == extract_multiple_entities(arg.chast_nomera[1])
            IN  [n \in 1..Len(es) |-> Some(es[n])]
       ELSE <<arg.chast_nomera>>

PointValues == IF arg.punkt_nomera = None THEN PartValues ELSE Candidates(arg.punkt_nomera)

Range(seq) == {seq[n] : n \in 1..Len(seq)}

\* C3: process_match returns one reference per (article, point, subpoint)
\* combination, article outermost and subpoint innermost, each list in its own
\* order, all with the one law id; a match without clauses gives one reference
\* with the three fields absent.
C3_CartesianOrder ==
  Returned("process_match") =>
    LET refs == ret[1].references
        na == Len(ArticleValues)
        np == Len(PointValues)
        ns == Len(SubpointValues)
    IN  /\ Len(refs) = na * np * ns
        /\ \A a \in 1..na, b \in 1..np, c \in 1..ns :
             refs[((a - 1) * np + (b - 1)) * ns + c] =
               [law_id |-> refs[1].law_id, article |-> ArticleValues[a],
                point_article |-> PointValues[b],
                subpoint_article |-> SubpointValues[c]]
        /\ (/\ arg.statya_nomera = None /\ arg.punkt_nomera = None
            /\ arg.chast_nomera = None /\ arg.podpunkt_nomera = None)
           => refs = <<[law_id |-> refs[1].law_id, article |-> None,
                        point_article |-> None, subpoint_article |-> None]>>

C3_Witness ==
  /\ Returned("process_match")
  /\ Len(ArticleValues) = 2 /\ Len(PointValues) = 3 /\ Len(SubpointValues) = 2
  /\ Len(ret[1].references) = 12
  /\ ret[1].references[1].law_id /= None

\* C7: with no point field, the point candidates are the part field's values:
\* the raw value without a comma or the conjunction, the split list with one,
\* and None alone when there is no part field either.
C7_PartAsPoint ==
  Returned("process_match") /\ arg.punkt_nomera = None =>
    LET refs == ret[1].references
        ns == Len(SubpointValues)
    IN  /\ Len(refs) = Len(ArticleValues) * Len(PartValues) * ns
        /\ \A b \in 1..Len(PartValues) :
             refs[(b - 1) * ns + 1].point_article = PartValues[b]
        /\ \A n \in 1..Len(refs) : refs[n].point_article \in Range(PartValues)

C7_Witness ==
  /\ Returned("process_match")
  /\ arg.punkt_nomera = None
  /\ arg.chast_nomera /= None /\ HasSeparator(arg.chast_nomera[1])
  /\ {ret[1].references[n].point_article : n \in 1..Len(ret[1].references)}
       = {Some(<<"3">>), Some(<<"2">>)}

\* C10: with both a point and a part field, the part field changes nothing:
\* the result is that of the same match without it, every point value comes
\* from the point field and the count does not depend on the part field.
C10_PartDiscarded ==
  Returned("process_match") /\ arg.punkt_nomera /= None /\ arg.chast_nomera /= None =>
    /\ ret[1] = process_match([arg EXCEPT !.chast_nomera = None])
    /\ \A n \in 1..Len(ret[1].references) :
         ret[1].references[n].point_article \in Range(Candidates(arg.punkt_nomera))
    /\ ~ret[1].raised =>
         Len(ret[1].references) =
           Len(ArticleValues) * Len(Candidates(arg.punkt_nomera)) * Len(SubpointValues)

C10_Witness ==
  /\ Returned("process_match")
  /\ arg.punkt_nomera = Some(<<"1">>)
  /\ arg.chast_nomera /= None /\ HasSeparator(arg.chast_nomera[1])
  /\ ret[1].references /= <<>>

\* C8: extract_multiple_entities gives back the tokens of a number-list,
\* unchanged and in order, whatever their letters.
C8_TokensPreserved ==
  Returned("extract_multiple_entities") => ret[1] = arg.toks

\* the request is handled and these are the citations of its text
Handled == fn \in {"get_law_links", "health_check"} /\ ret /= None

GroupOf(kind) ==
  CASE kind = "pp" -> "podpunkt_nomera"
    [] kind = "p"  -> "punkt_nomera"
    [] kind = "c"  -> "chast_nomera"
    [] kind = "st" -> "statya_nomera"

\* every joint but the last is a comma
CommasThenOneAnd(seps) == \A n \in 1..(Len(seps) - 1) : seps[n] = Comma

\* clause k of citation n is captured whole by match n
CapturedWhole(n, k) ==
  /\ n <= Len(stdout)
  /\ stdout[n][GroupOf(request[n].clauses[k].kind)] =
       Some(RenderList(request[n].clauses[k].toks, request[n].clauses[k].seps))

\* C9 as stated: a number-list whose tokens are joined by commas or the
\* conjunction in any mix is captured whole as its clause's number field.
C9_AnyMix ==
  Handled =>
    \A k \in 1..Len(request[1].clauses) : CapturedWhole(1, k)

\* C9, amended: a number-list whose tokens are joined by commas, the last
\* joint alone being a comma or the conjunction, is captured whole as its
\* clause's number field.
C9_CommasThenOneAnd ==
  Handled =>
    \A k \in 1..Len(request[1].clauses) :
      CommasThenOneAnd(request[1].clauses[k].seps) => CapturedWhole(1, k)

C9_Witness ==
  /\ Handled
  /\ Len(request) = 1 /\ Len(request[1].clauses) = 1
  /\ request[1].clauses[1].seps = <<Comma, And>>
  /\ CapturedWhole(1, 1)

\* every law id of the table is a string of digits
IntegerIds ==
  \A n \in 1..Len(codex_aliases) :
    /\ codex_aliases[n][1] /= <<>>
    /\ \A k \in 1..Len(codex_aliases[n][1]) : codex_aliases[n][1][k] \in Digits

\* C4 as stated: whatever the alias table, the core returns and never raises.
C4_NeverRaises == Handled => ~ret[1].raised

\* C4, amended: with a table whose law ids are integers (JSON keys of digits)
\* the core never raises and the handler answers with what it returned; an
\* unresolved instrument is a reference without a law id, and with an empty
\* index every reference is one.
C4_TotalOnIntegerIds ==
  Handled /\ IntegerIds =>
    /\ ~ret[1].raised
    /\ response.links = ret[1].references
    /\ codex_aliases = <<>> =>
         \A n \in 1..Len(ret[1].references) : ret[1].references[n].law_id = None

C4_Witness ==
  /\ Handled /\ IntegerIds /\ codex_aliases /= <<>>
  /\ Len(ret[1].references) = 2
  /\ ret[1].references[1].law_id = None
  /\ ret[1].references[2].law_id /= None

Calls ==
  history \o (IF ret = None THEN <<>>
              ELSE <<[text |-> RenderText(request), result |-> ret[1]]>>)

\* C6: two calls on the same text return the same, whatever ran between, and
\* no call changes the index built at startup.
C6_Deterministic ==
  /\ phase = "up" => law_aliases_invers = InvertAliases(codex_aliases, <<>>)
  /\ \A m \in 1..Len(Calls), n \in 1..Len(Calls) :
       Calls[m].text = Calls[n].text => Calls[m].result = Calls[n].result

C6_Witness ==
  /\ Len(Calls) = 3
  /\ Calls[1].text = Calls[3].text
  /\ Calls[2].text /= Calls[1].text
  /\ Calls[1].result.references /= <<>>
  /\ Calls[2].result.references /= <<>>

====
